---- MODULE Spec2Model ----
(***************************************************************************)
(* A model of the persistence side of the product scraper:                 *)
(*   - scrape_from_user_url / ProductSaver.save_to_db  (src/app/scraper.py)*)
(*   - ProductScraper.fetch_all_products, the crawl     (src/app/scraper.py)*)
(*   - update_product_price and its pool workers       (src/app/scraper.py)*)
(*   - clean_old_data and the two tables               (src/app/database.py)*)
(* The committed database is the pair (scraped_data, price_history).  Each  *)
(* request thread c owns a session whose pending work (dirty rows,          *)
(* new_products, price_histories) reaches the database only at commit.      *)
(* Prices are counted in hundredths.  A price held by the program is either *)
(* a Python float (parsed from page text) or a Decimal (loaded from a       *)
(* Numeric(10, 2) column); the two compare by exact value.                  *)
(* Columns that no operation below reads (title, image, brand,              *)
(* product_code, PriceHistory.timestamp) are left out.                      *)
(***************************************************************************)
EXTENDS Integers, Sequences, FiniteSets, TLC

\* ---------------------------------------------------------------- bounds
MaxHistory == 2
MaxTime == 1
MaxBatch == 2
MaxExtra == 1
MaxCards == 2
MaxLiveCards == 1

\* ------------------------------------------------------ program constants
threshold_seconds == 3
max_workers == 5
stop_after_attempt == 3

Links == {"L1", "L2"}
\* prices in hundredths: the crawled pages show 100.00 or 1234.56, the
\* product pages 150.00
Cents == {10000, 123456}
SiteCents == {15000}
\* Python's None, as a price
None == [t |-> "NoneType", v |-> 0]
Crawlers == {1, 2}
\* refresh runs: one per scheduler that is running the job
Runs == {1, 2}

VARIABLES
  scraped_data,     \* committed rows of table scraped_data
  price_history,    \* committed rows of table price_history, in insertion order
  now,              \* datetime.utcnow(), in seconds
  cpc,              \* per request thread: position in scrape_from_user_url
  products,         \* per request thread: the list returned by fetch_all_products
  idx,              \* per request thread: position of save_to_db's for loop
  new_products,     \* per request thread: save_to_db's list new_products
  price_histories,  \* per request thread: save_to_db's list price_histories
  dirty,            \* per request thread: rows modified in the session, not yet committed
  savelog,          \* per request thread: level of save_to_db's closing log line
  result,           \* per request thread: "status" of the dict scrape_from_user_url returned
  url,              \* per request thread: fetch_all_products' url
  response,         \* per request thread: the page the last requests.get of the crawl got
  seen_links,       \* per request thread: the ProductScraper's seen_links
  all_products,     \* per request thread: fetch_all_products' list all_products
  site,             \* per link: what the product page of the link serves
  jpc,              \* per refresh run: position in update_product_price
  rproducts,        \* per refresh run: the list products = ScrapedData.query.all()
  wpc,              \* per run and submitted task: position in update_single_product
  attempts,         \* per run and task: calls of fetch_current_price made by @retry
  updated_price,    \* per run and task: the local updated_price
  rdirty,           \* per run: rows modified in the run's session, not yet committed
  rhist             \* per run: PriceHistory objects added to the run's session

scrapervars == <<url, response, seen_links, all_products>>
crawlvars == <<cpc, products, idx, new_products, price_histories, dirty, savelog, result,
               scrapervars>>
storevars == <<scraped_data, price_history>>
refreshvars == <<jpc, rproducts, wpc, attempts, updated_price, rdirty, rhist>>
vars == <<scraped_data, price_history, now, cpc, products, idx, new_products,
          price_histories, dirty, savelog, result, url, response, seen_links,
          all_products, site, jpc, rproducts, wpc, attempts, updated_price, rdirty,
          rhist>>

\* ------------------------------------------------------------ price values
Float(c) == [t |-> "float", v |-> c]
Decimal(c) == [t |-> "Decimal", v |-> c]

\* c/100 is a binary fraction exactly when it is a multiple of 1/4
ExactBinary(c) == c % 25 = 0

\* Python's == between two prices: float/float and Decimal/Decimal compare the
\* values; Decimal against float compares the Decimal with the float's exact
\* binary value, which is c/100 only when c/100 is a binary fraction.
PyEq(a, b) ==
  IF a.t = b.t THEN a.v = b.v
  ELSE a.v = b.v /\ ExactBinary(a.v)

PyNe(a, b) == ~PyEq(a, b)

\* Numeric(10, 2) column: what is bound on write, what is loaded on read
Bind(p) == p.v
Load(n) == Decimal(n)

\* ------------------------------------------------------------------ tables
Ids(rows) == {r.id : r \in rows}
MaxOf(S) == CHOOSE m \in S : \A x \in S : x <= m
MinOf(S) == CHOOSE m \in S : \A x \in S : m <= x

\* a key generator that hands out a key in use
NextId_reused(rows) == IF rows = {} THEN 1 ELSE MinOf(Ids(rows))

\* INTEGER PRIMARY KEY of the default sqlite database: one more than the largest
NextId(rows) == IF rows = {} THEN 1 ELSE MaxOf(Ids(rows)) + 1

\* link = db.Column(..., unique=True): an INSERT of these links is rejected
UniqueViolation_off(rows, links) == FALSE

UniqueViolation(rows, links) ==
  \/ \E i \in 1..Len(links) : \E r \in rows : r.link = links[i]
  \/ \E i, j \in 1..Len(links) : i # j /\ links[i] = links[j]

\* ScrapedData.query.filter_by(link=link).first(), as the session of thread c
\* sees it: the committed row, with the session's own pending change on top
RowsByLink(link) == {r \in scraped_data : r.link = link}

\* the row .first() returns when RowsByLink(link) is not empty, as a session
\* with pending changes d sees it
query_first(d, link) ==
  LET row == CHOOSE r \in RowsByLink(link) : r.id = MinOf(Ids(RowsByLink(link))) IN
  IF row.id \in DOMAIN d
  THEN [id |-> row.id, link |-> row.link,
        current_price |-> d[row.id].current_price,
        last_updated |-> d[row.id].last_updated]
  ELSE [id |-> row.id, link |-> row.link,
        current_price |-> Load(row.current_price),
        last_updated |-> row.last_updated]

\* the UPDATEs of a flush: every dirty row gets its pending values
ApplyDirty(rows, d) ==
  {IF r.id \in DOMAIN d
   THEN [r EXCEPT !.current_price = Bind(d[r.id].current_price),
                  !.last_updated = d[r.id].last_updated]
   ELSE r : r \in rows}

\* the INSERTs of a flush into scraped_data, in list order
Inserted(rows, new) ==
  {[id |-> NextId(rows) + i - 1, link |-> new[i].link,
    current_price |-> Bind(new[i].current_price),
    last_updated |-> new[i].last_updated] : i \in 1..Len(new)}

\* the INSERTs of a flush into price_history
BoundHistories(hs) ==
  [i \in 1..Len(hs) |-> [product_id |-> hs[i].product_id, price |-> Bind(hs[i].price)]]

\* an UPDATE that matches no row raises StaleDataError
StaleUpdate(rows, d) == \E id \in DOMAIN d : id \notin Ids(rows)

\* db.session.rollback(): the committed rows once the session's pending
\* changes d are discarded
session_rollback_partial(rows, d) == ApplyDirty(rows, d)

session_rollback(rows, d) == rows

\* ------------------------------------------------- scrape_from_user_url
\* What fetch_all_products can return from pages that show the products of
\* `links`: products with a parsed (float) price and, because of seen_links,
\* pairwise different links.
Product(link, price) == [link |-> link, price |-> price]
ProductsOf(links) == {Product(l, Float(c)) : l \in links, c \in Cents}
DistinctLinks(b) == \A i, j \in 1..Len(b) : i # j => b[i].link # b[j].link
Batches(links) ==
  UNION {{b \in [1..n -> ProductsOf(links)] : DistinctLinks(b)} : n \in 0..MaxBatch}

EmptySession == <<>>

\* history rows that exist or may still be added by the batches in hand
HistoryLoad ==
  Len(price_history) + Len(rhist[1]) + Len(rhist[2])
  + Len(products[1]) + Len(products[2])

\* lines 251-252: the crawl hands its products over; save_to_db starts
\* (lines 213-214) with empty lists
ScrapeFetch(c, links) ==
  /\ cpc[c] \in {"idle", "returned"}
  /\ \E batch \in Batches(links) :
       /\ HistoryLoad + Len(batch) <= MaxHistory
       /\ products' = [products EXCEPT ![c] = batch]
  /\ cpc' = [cpc EXCEPT ![c] = "save_to_db"]
  /\ idx' = [idx EXCEPT ![c] = 1]
  /\ new_products' = [new_products EXCEPT ![c] = <<>>]
  /\ price_histories' = [price_histories EXCEPT ![c] = <<>>]
  /\ dirty' = [dirty EXCEPT ![c] = EmptySession]
  /\ savelog' = [savelog EXCEPT ![c] = "none"]
  /\ result' = [result EXCEPT ![c] = "none"]
  /\ UNCHANGED <<storevars, now, site, refreshvars, scrapervars>>

\* lines 257-259: an exception that escapes the crawl is reported as an error
ScrapeRaise(c) ==
  /\ cpc[c] \in {"idle", "returned"}
  /\ cpc' = [cpc EXCEPT ![c] = "returned"]
  /\ result' = [result EXCEPT ![c] = "error"]
  /\ savelog' = [savelog EXCEPT ![c] = "none"]
  /\ UNCHANGED <<products, idx, new_products, price_histories, dirty>>
  /\ UNCHANGED <<storevars, now, site, refreshvars, scrapervars>>

\* lines 222-227: the PriceHistory object built for a changed price
NewPriceHistory_new(existing_product, product) ==
  [product_id |-> existing_product.id, price |-> product.price]

NewPriceHistory(existing_product, product) ==
  [product_id |-> existing_product.id, price |-> existing_product.current_price]

\* lines 245-247: except: rollback and an error line; save_to_db returns
\* (the two lists are locals and live until then)
SaveExcept(c) ==
  /\ scraped_data' = session_rollback(scraped_data, dirty[c])
  /\ price_history' = price_history
  /\ dirty' = [dirty EXCEPT ![c] = EmptySession]
  /\ UNCHANGED <<new_products, price_histories>>
  /\ savelog' = [savelog EXCEPT ![c] = "error"]
  /\ cpc' = [cpc EXCEPT ![c] = "after_save"]

\* lines 215-241: one iteration of save_to_db's for loop; the query may raise
SaveLoop(c) ==
  /\ cpc[c] = "save_to_db"
  /\ idx[c] <= Len(products[c])
  /\ LET product == products[c][idx[c]] IN
     IF product.price = None
     THEN /\ idx' = [idx EXCEPT ![c] = @ + 1]
          /\ UNCHANGED <<storevars, cpc, new_products, price_histories, dirty, savelog>>
     ELSE \E raises \in BOOLEAN :
       IF raises
       THEN SaveExcept(c) /\ UNCHANGED idx
       ELSE
         /\ idx' = [idx EXCEPT ![c] = @ + 1]
         /\ UNCHANGED <<storevars, cpc, savelog>>
         /\ IF RowsByLink(product.link) # {}
            THEN LET existing_product == query_first(dirty[c], product.link) IN
                 IF PyNe(existing_product.current_price, product.price)
                 THEN /\ price_histories' = [price_histories EXCEPT ![c] =
                             Append(@, NewPriceHistory(existing_product, product))]
                      /\ dirty' = [dirty EXCEPT ![c] =
                             (existing_product.id :>
                                [current_price |-> product.price, last_updated |-> now]) @@ @]
                      /\ UNCHANGED new_products
                 ELSE UNCHANGED <<new_products, price_histories, dirty>>
            ELSE /\ new_products' = [new_products EXCEPT ![c] =
                        Append(@, [link |-> product.link, current_price |-> product.price,
                                   last_updated |-> now])]
                 /\ UNCHANGED <<price_histories, dirty>>
  /\ UNCHANGED <<now, products, result, site, refreshvars, scrapervars>>

NewLinks(new) == [i \in 1..Len(new) |-> new[i].link]

\* what makes add_all + commit raise, besides an error of the database itself
CommitRejected(rows, d, new) ==
  \/ UniqueViolation(rows, NewLinks(new))
  \/ StaleUpdate(rows, d)

\* lines 242-247: add_all and commit, or the except branch
SaveCommit(c) ==
  /\ cpc[c] = "save_to_db"
  /\ idx[c] > Len(products[c])
  /\ \E raises \in BOOLEAN :
       IF raises \/ CommitRejected(scraped_data, dirty[c], new_products[c])
       THEN SaveExcept(c)
       ELSE /\ scraped_data' = ApplyDirty(scraped_data, dirty[c])
                                 \cup Inserted(scraped_data, new_products[c])
            /\ price_history' = price_history \o BoundHistories(price_histories[c])
            /\ dirty' = [dirty EXCEPT ![c] = EmptySession]
            /\ savelog' = [savelog EXCEPT ![c] = "info"]
            /\ cpc' = [cpc EXCEPT ![c] = "after_save"]
            /\ UNCHANGED <<new_products, price_histories>>
  /\ UNCHANGED <<now, products, idx, result, site, refreshvars, scrapervars>>

\* line 256: save_to_db returned (it never raises): the status is "success"
ScrapeReturn(c) ==
  /\ cpc[c] = "after_save"
  /\ result' = [result EXCEPT ![c] = "success"]
  /\ cpc' = [cpc EXCEPT ![c] = "returned"]
  /\ products' = [products EXCEPT ![c] = <<>>]
  /\ new_products' = [new_products EXCEPT ![c] = <<>>]
  /\ price_histories' = [price_histories EXCEPT ![c] = <<>>]
  /\ idx' = [idx EXCEPT ![c] = 1]
  /\ UNCHANGED <<storevars, now, dirty, savelog, site, refreshvars, scrapervars>>

\* the clock, up to a limit
Tick(step, limit) ==
  /\ now < limit
  /\ now' = now + step
  /\ UNCHANGED <<storevars, crawlvars, site, refreshvars>>

\* ----------------------------------------------------- fetch_all_products
\* A listing page is a list of product cards and a pagination block.  A card
\* has or lacks its ".title a" element, that element's href, and the text of
\* ".price-current"; 100.00 is the price the cards show.
Urls == {"p1", "p2"}
start_url == "p1"
NoUrl == ""
CardCents == {10000}

\* hrefs are relative or absolute; a card without one has NoHref
Href(abs, path) == [abs |-> abs, path |-> path]
NoHref == Href(FALSE, "")
Hrefs == {Href(FALSE, l) : l \in Links} \cup {Href(TRUE, "L1")}
BaseUrl == "https://www.dmo.gov.tr/"

\* line 119: urljoin("https://www.dmo.gov.tr/", link): a relative and an
\* absolute href of one product give the same link
urljoin(base, href) == IF href = NoHref THEN base ELSE href.path

\* price texts: no text, a text that float() rejects ("1,2,3"), a price
PriceText(kind, c) == [t |-> kind, v |-> c]
PriceTexts ==
  {PriceText("none", 0), PriceText("malformed", 0)}
    \cup {PriceText("price", c) : c \in CardCents}

\* lines 130-133: the float of the cleaned text, None for no text
ParsePrice(price_text) ==
  IF price_text.t = "price" THEN Float(price_text.v) ELSE None

\* line 133: float(price_clean) raises ValueError
ParseRaises(price_text) == price_text.t = "malformed"

Card(title_el, href, price_text) ==
  [title_el |-> title_el, href |-> href, price_text |-> price_text]
Cards ==
  {Card(FALSE, NoHref, PriceText("none", 0))}
    \cup {Card(TRUE, NoHref, PriceText("price", c)) : c \in CardCents}
    \cup {Card(TRUE, h, p) : h \in Hrefs, p \in PriceTexts}
CardLists == UNION {[1..n -> Cards] : n \in 0..MaxCards}

\* texts of the pagination block: a number, another text, or no element
Num(n) == [t |-> "int", v |-> n]
Txt == [t |-> "text", v |-> 0]
Absent == [t |-> "absent", v |-> 0]
Anchor(label, href) == [label |-> label, href |-> href]
Paginations ==
  {[current |-> cur, anchors |-> <<Anchor(Num(2), "p2")>>] : cur \in {Absent, Txt}}
    \cup {[current |-> Num(1), anchors |-> <<>>]}
    \cup {[current |-> Num(1), anchors |-> <<Anchor(Num(2), u)>>] : u \in Urls \cup {NoUrl}}
    \cup {[current |-> Num(1), anchors |-> <<Anchor(Num(3), "p2")>>]}
    \cup {[current |-> Num(2), anchors |-> <<Anchor(Txt, "p1"), Anchor(Num(3), "p1")>>]}

\* what requests.get of line 60 gets: a page, or a RequestException
Page(status, cards, pagination) ==
  [status |-> status, cards |-> cards,
   current |-> pagination.current, anchors |-> pagination.anchors]
NoPagination == [current |-> Absent, anchors |-> <<>>]
NoResponse == Page("none", <<>>, NoPagination)
FailedPage == Page("fail", <<>>, NoPagination)
Pages == {Page("ok", cards, pg) : cards \in CardLists, pg \in Paginations}

\* line 116: if not link
MissingLink_never(href) == FALSE

MissingLink(href) == href = NoHref

\* line 121: if link in self.seen_links
AlreadySeen_never(link, seen) == FALSE

AlreadySeen(link, seen) == link \in seen

\* lines 106-147: the for loop over the cards from card i on, given the
\* links seen and the products collected so far; the result is the list
\* returned and self.seen_links
RECURSIVE extract_products_from_soup(_, _, _, _)
extract_products_from_soup(cards, i, seen, out) ==
  IF i > Len(cards) THEN [products |-> out, seen_links |-> seen]
  ELSE LET el == cards[i] IN
    IF ~el.title_el \/ MissingLink(el.href)
    THEN extract_products_from_soup(cards, i + 1, seen, out)
    ELSE LET link == urljoin(BaseUrl, el.href) IN
      IF AlreadySeen(link, seen)
      THEN extract_products_from_soup(cards, i + 1, seen, out)
      ELSE IF ParseRaises(el.price_text) \/ ParsePrice(el.price_text) = None
      THEN extract_products_from_soup(cards, i + 1, seen \cup {link}, out)
      ELSE extract_products_from_soup(cards, i + 1, seen \cup {link},
             Append(out, Product(link, ParsePrice(el.price_text))))

\* lines 85-94: the href of the first anchor whose text is the number wanted
RECURSIVE FirstAnchor(_, _, _)
FirstAnchor(anchors, k, page_num) ==
  IF k > Len(anchors) THEN NoUrl
  ELSE IF anchors[k].label = Num(page_num) THEN anchors[k].href
  ELSE FirstAnchor(anchors, k + 1, page_num)

\* lines 85-94 with any numbered anchor taken for the next page
next_page_url_any(page) ==
  IF page.anchors = <<>> THEN NoUrl ELSE page.anchors[Len(page.anchors)].href

\* lines 74-98: the next page's href; NoUrl stands for every way to stop
next_page_url(page) ==
  IF page.current.t # "int" THEN NoUrl
  ELSE FirstAnchor(page.anchors, 1, page.current.v + 1)

\* lines 251 and 53-55: a new ProductScraper and the start of its crawl
CrawlStart(c) ==
  /\ cpc[c] \in {"idle", "returned"}
  /\ cpc' = [cpc EXCEPT ![c] = "crawl"]
  /\ url' = [url EXCEPT ![c] = start_url]
  /\ response' = [response EXCEPT ![c] = NoResponse]
  /\ seen_links' = [seen_links EXCEPT ![c] = {}]
  /\ all_products' = [all_products EXCEPT ![c] = <<>>]
  /\ savelog' = [savelog EXCEPT ![c] = "none"]
  /\ result' = [result EXCEPT ![c] = "none"]
  /\ UNCHANGED <<products, idx, new_products, price_histories, dirty>>
  /\ UNCHANGED <<storevars, now, site, refreshvars>>

\* lines 57-64: the request for the page at url, which the site answers with
\* one of `pages` or with an error; a failure ends the loop
Fetch(c, pages) ==
  /\ cpc[c] = "crawl"
  /\ \E page \in pages \cup {FailedPage} :
       /\ response' = [response EXCEPT ![c] = page]
       /\ cpc' = [cpc EXCEPT ![c] = IF page.status = "fail" THEN "crawled" ELSE "parse"]
  /\ UNCHANGED <<url, seen_links, all_products>>
  /\ UNCHANGED <<products, idx, new_products, price_histories, dirty, savelog, result>>
  /\ UNCHANGED <<storevars, now, site, refreshvars>>

CrawlFetch(c) == Fetch(c, Pages)

\* lines 66-102: the rest of the iteration: extraction, then the next url or
\* the end of the loop; a response that is followed is dropped, the next
\* request replaces it
CrawlPage(c) ==
  /\ cpc[c] = "parse"
  /\ LET page == response[c]
         soup == extract_products_from_soup(page.cards, 1, seen_links[c], <<>>) IN
     /\ seen_links' = [seen_links EXCEPT ![c] = soup.seen_links]
     /\ IF soup.products = <<>>
        THEN /\ cpc' = [cpc EXCEPT ![c] = "crawled"]
             /\ UNCHANGED <<url, response, all_products>>
        ELSE /\ all_products' = [all_products EXCEPT ![c] = @ \o soup.products]
             /\ IF next_page_url(page) = NoUrl
                THEN /\ cpc' = [cpc EXCEPT ![c] = "crawled"]
                     /\ UNCHANGED <<url, response>>
                ELSE /\ cpc' = [cpc EXCEPT ![c] = "crawl"]
                     /\ url' = [url EXCEPT ![c] = next_page_url(page)]
                     /\ response' = [response EXCEPT ![c] = NoResponse]
  /\ UNCHANGED <<products, idx, new_products, price_histories, dirty, savelog, result>>
  /\ UNCHANGED <<storevars, now, site, refreshvars>>

\* lines 104 and 252-255: the list is returned and save_to_db starts
\* (lines 213-214) with empty lists
CrawlReturn(c) ==
  /\ cpc[c] = "crawled"
  /\ cpc' = [cpc EXCEPT ![c] = "save_to_db"]
  /\ products' = [products EXCEPT ![c] = all_products[c]]
  /\ idx' = [idx EXCEPT ![c] = 1]
  /\ new_products' = [new_products EXCEPT ![c] = <<>>]
  /\ price_histories' = [price_histories EXCEPT ![c] = <<>>]
  /\ dirty' = [dirty EXCEPT ![c] = EmptySession]
  /\ url' = [url EXCEPT ![c] = start_url]
  /\ response' = [response EXCEPT ![c] = NoResponse]
  /\ all_products' = [all_products EXCEPT ![c] = <<>>]
  /\ UNCHANGED <<seen_links, savelog, result>>
  /\ UNCHANGED <<storevars, now, site, refreshvars>>

\* --------------------------------------------------- update_product_price
\* what a product page serves: a request failure, no price text, or a price
Served(kind, c) == [t |-> kind, v |-> c]
SiteValues == {Served("fail", 0), Served("noprice", 0)} \cup {Served("price", c) : c \in SiteCents}

\* a page whose requests fail until the last attempt that @retry allows, and
\* then serve a price
FlakyValues == {Served("flaky", c) : c \in SiteCents}

\* requests.get / raise_for_status of line 161-162 raise on this attempt
RequestFails(served, attempt) ==
  \/ served.t = "fail"
  \/ served.t = "flaky" /\ attempt < stop_after_attempt

\* attributes of a ScrapedData object (database.py, the columns and the
\* relationship)
ScrapedDataAttrs_with_price ==
  {"id", "title", "current_price", "link", "image", "brand", "product_code",
   "last_updated", "prices", "price"}

ScrapedDataAttrs ==
  {"id", "title", "current_price", "link", "image", "brand", "product_code",
   "last_updated", "prices"}

\* rows in id order
RECURSIVE SortedRows(_)
SortedRows(rows) ==
  IF rows = {} THEN <<>>
  ELSE LET first == CHOOSE r \in rows : r.id = MinOf(Ids(rows)) IN
       <<first>> \o SortedRows(rows \ {first})

\* ScrapedData.query.all(): the rows as objects of the session
query_all(rows) ==
  LET sorted == SortedRows(rows) IN
  [i \in 1..Len(sorted) |->
     [id |-> sorted[i].id, link |-> sorted[i].link,
      current_price |-> Load(sorted[i].current_price),
      last_updated |-> sorted[i].last_updated]]

\* the tasks of run r, one per loaded row, and those a pool thread executes
Tasks(r) == DOMAIN rproducts[r]
Running(r) == {w \in Tasks(r) : wpc[r][w] \notin {"queued", "done"}}

\* lines 280-283: load every row and submit one task per row
RefreshStart(r) ==
  /\ jpc[r] = "idle"
  /\ jpc' = [jpc EXCEPT ![r] = "running"]
  /\ rproducts' = [rproducts EXCEPT ![r] = query_all(scraped_data)]
  /\ wpc' = [wpc EXCEPT ![r] = [w \in 1..Cardinality(scraped_data) |-> "queued"]]
  /\ attempts' = [attempts EXCEPT ![r] = [w \in 1..Cardinality(scraped_data) |-> 0]]
  /\ updated_price' = [updated_price EXCEPT ![r] =
                         [w \in 1..Cardinality(scraped_data) |-> None]]
  /\ rdirty' = [rdirty EXCEPT ![r] = EmptySession]
  /\ rhist' = [rhist EXCEPT ![r] = <<>>]
  /\ UNCHANGED <<storevars, now, crawlvars, site>>

\* ThreadPoolExecutor(max_workers=5) without a bound on its threads
WorkerStart_unbounded(r, w) ==
  /\ jpc[r] = "running"
  /\ wpc[r][w] = "queued"
  /\ \A v \in Tasks(r) : v < w => wpc[r][v] # "queued"
  /\ wpc' = [wpc EXCEPT ![r][w] = "init"]
  /\ UNCHANGED <<storevars, now, crawlvars, site, jpc, rproducts, attempts,
                 updated_price, rdirty, rhist>>

\* ThreadPoolExecutor(max_workers=5): a free pool thread takes the oldest
\* queued task
WorkerStart(r, w) ==
  /\ jpc[r] = "running"
  /\ wpc[r][w] = "queued"
  /\ \A v \in Tasks(r) : v < w => wpc[r][v] # "queued"
  /\ Cardinality(Running(r)) < max_workers
  /\ wpc' = [wpc EXCEPT ![r][w] = "init"]
  /\ UNCHANGED <<storevars, now, crawlvars, site, jpc, rproducts, attempts,
                 updated_price, rdirty, rhist>>

\* one step of update_single_product (lines 262-278) for task w of run r:
\*  init   ProductPriceUpdater(product) reads product.price (line 152), which
\*         raises AttributeError unless the object has that attribute; the
\*         except of line 277 ends the task
\*  fetch  one call of fetch_current_price under @retry (lines 158-177), then
\*         ProductPriceUpdater.update_product_price's comparison (179-193)
\*  query  lines 267-269: look the row up and compare
\*  write  lines 270-276: the PriceHistory, the new price, session.add
update_single_product(r, w) ==
  /\ jpc[r] = "running"
  /\ wpc[r][w] \in {"init", "fetch", "query", "write"}
  /\ LET product == rproducts[r][w]
         served == site[product.link] IN
     CASE wpc[r][w] = "init" ->
            /\ wpc' = [wpc EXCEPT ![r][w] =
                 IF "price" \in ScrapedDataAttrs THEN "fetch" ELSE "done"]
            /\ UNCHANGED <<attempts, updated_price, rdirty, rhist>>
       [] wpc[r][w] = "fetch" ->
            /\ attempts' = [attempts EXCEPT ![r][w] = @ + 1]
            /\ IF RequestFails(served, attempts[r][w] + 1)
               THEN /\ wpc' = [wpc EXCEPT ![r][w] =
                         IF attempts[r][w] + 1 >= stop_after_attempt
                         THEN "done" ELSE "fetch"]
                    /\ UNCHANGED updated_price
               ELSE IF served.t = "noprice" \/ PyEq(product.current_price, Float(served.v))
               THEN /\ wpc' = [wpc EXCEPT ![r][w] = "done"]
                    /\ UNCHANGED updated_price
               ELSE /\ wpc' = [wpc EXCEPT ![r][w] = "query"]
                    /\ updated_price' = [updated_price EXCEPT ![r][w] = Float(served.v)]
            /\ UNCHANGED <<rdirty, rhist>>
       [] wpc[r][w] = "query" ->
            /\ wpc' = [wpc EXCEPT ![r][w] =
                 IF /\ RowsByLink(product.link) # {}
                    /\ PyNe(query_first(rdirty[r], product.link).current_price,
                            updated_price[r][w])
                 THEN "write" ELSE "done"]
            /\ UNCHANGED <<attempts, updated_price, rdirty, rhist>>
       [] wpc[r][w] = "write" ->
            /\ wpc' = [wpc EXCEPT ![r][w] = "done"]
            /\ IF RowsByLink(product.link) # {}
               THEN LET existing_product == query_first(rdirty[r], product.link) IN
                    /\ rhist' = [rhist EXCEPT ![r] = Append(@,
                         [product_id |-> existing_product.id,
                          price |-> existing_product.current_price])]
                    /\ rdirty' = [rdirty EXCEPT ![r] = (existing_product.id :>
                         [current_price |-> updated_price[r][w], last_updated |-> now])
                         @@ @]
               ELSE UNCHANGED <<rdirty, rhist>>
            /\ UNCHANGED <<attempts, updated_price>>
  /\ UNCHANGED <<storevars, now, crawlvars, site, jpc, rproducts>>

\* lines 284-289 without the wait for the futures
RefreshCommit_early(r) ==
  /\ jpc[r] = "running"
  /\ jpc' = [jpc EXCEPT ![r] = "done"]
  /\ scraped_data' = ApplyDirty(scraped_data, rdirty[r])
  /\ price_history' = price_history \o BoundHistories(rhist[r])
  /\ rdirty' = [rdirty EXCEPT ![r] = EmptySession]
  /\ rhist' = [rhist EXCEPT ![r] = <<>>]
  /\ UNCHANGED <<now, crawlvars, site, rproducts, wpc, attempts, updated_price>>

\* lines 284-289: every future has its result, then commit, or rollback on
\* an exception
RefreshCommit(r) ==
  /\ jpc[r] = "running"
  /\ \A w \in Tasks(r) : wpc[r][w] = "done"
  /\ jpc' = [jpc EXCEPT ![r] = "done"]
  /\ \E raises \in BOOLEAN :
       IF raises \/ StaleUpdate(scraped_data, rdirty[r])
       THEN /\ scraped_data' = session_rollback(scraped_data, rdirty[r])
            /\ price_history' = price_history
       ELSE /\ scraped_data' = ApplyDirty(scraped_data, rdirty[r])
            /\ price_history' = price_history \o BoundHistories(rhist[r])
  /\ rdirty' = [rdirty EXCEPT ![r] = EmptySession]
  /\ rhist' = [rhist EXCEPT ![r] = <<>>]
  /\ UNCHANGED <<now, crawlvars, site, rproducts, wpc, attempts, updated_price>>

\* update_product_price returns
RefreshReturn(r) ==
  /\ jpc[r] = "done"
  /\ jpc' = [jpc EXCEPT ![r] = "idle"]
  /\ rproducts' = [rproducts EXCEPT ![r] = <<>>]
  /\ wpc' = [wpc EXCEPT ![r] = <<>>]
  /\ attempts' = [attempts EXCEPT ![r] = <<>>]
  /\ updated_price' = [updated_price EXCEPT ![r] = <<>>]
  /\ UNCHANGED <<storevars, now, crawlvars, site, rdirty, rhist>>

\* --------------------------------------------------------- clean_old_data
\* database.py lines 32-42, called by safe_update_product_price right after
\* update_product_price (__init__.py lines 56-58): delete the rows not
\* updated within the threshold; price_history is not touched
Expired(rows) == {r \in rows : r.last_updated < now - threshold_seconds}

clean_old_data(r) ==
  /\ jpc[r] = "done"
  /\ jpc' = [jpc EXCEPT ![r] = "idle"]
  /\ \E raises \in BOOLEAN :
       scraped_data' = IF raises THEN scraped_data
                       ELSE scraped_data \ Expired(scraped_data)
  /\ rproducts' = [rproducts EXCEPT ![r] = <<>>]
  /\ wpc' = [wpc EXCEPT ![r] = <<>>]
  /\ attempts' = [attempts EXCEPT ![r] = <<>>]
  /\ updated_price' = [updated_price EXCEPT ![r] = <<>>]
  /\ UNCHANGED <<price_history, now, crawlvars, site, rdirty, rhist>>

\* ------------------------------------------------------- specifications
\* no request is being served and no refresh run is under way
InitIdle ==
  /\ now = 0
  /\ cpc = [c \in Crawlers |-> "idle"]
  /\ products = [c \in Crawlers |-> <<>>]
  /\ idx = [c \in Crawlers |-> 1]
  /\ new_products = [c \in Crawlers |-> <<>>]
  /\ price_histories = [c \in Crawlers |-> <<>>]
  /\ dirty = [c \in Crawlers |-> EmptySession]
  /\ savelog = [c \in Crawlers |-> "none"]
  /\ result = [c \in Crawlers |-> "none"]
  /\ url = [c \in Crawlers |-> start_url]
  /\ response = [c \in Crawlers |-> NoResponse]
  /\ seen_links = [c \in Crawlers |-> {}]
  /\ all_products = [c \in Crawlers |-> <<>>]
  /\ jpc = [r \in Runs |-> "idle"]
  /\ rproducts = [r \in Runs |-> <<>>]
  /\ wpc = [r \in Runs |-> <<>>]
  /\ attempts = [r \in Runs |-> <<>>]
  /\ updated_price = [r \in Runs |-> <<>>]
  /\ rdirty = [r \in Runs |-> EmptySession]
  /\ rhist = [r \in Runs |-> <<>>]

\* db.create_all() on a new database: both tables are empty
Init ==
  /\ scraped_data = {}
  /\ price_history = <<>>
  /\ site \in [Links -> SiteValues]
  /\ InitIdle

Refresh(r) ==
  \/ RefreshStart(r)
  \/ \E w \in Tasks(r) : WorkerStart(r, w)
  \/ \E w \in Tasks(r) : update_single_product(r, w)
  \/ RefreshCommit(r)

Scrape(c, links) ==
  \/ ScrapeFetch(c, links)
  \/ ScrapeRaise(c)
  \/ SaveLoop(c)
  \/ SaveCommit(c)
  \/ ScrapeReturn(c)

\* one request thread and update_product_price, within one second of the
\* clock and without retention
Next ==
  \/ Scrape(1, Links)
  \/ Refresh(1)
  \/ RefreshReturn(1)

Spec == Init /\ [][Next]_vars

\* two request threads and the scheduled job (refresh, then retention), with
\* the clock advancing past the retention threshold
NextAll ==
  \/ \E c \in Crawlers : Scrape(c, {"L1"})
  \/ Refresh(1)
  \/ clean_old_data(1)
  \/ Tick(threshold_seconds + 1, MaxTime * (threshold_seconds + 1))

\* both request threads crawl pages that show the product of link L1
InitAll == Init /\ site["L2"] = Served("fail", 0)
SpecAll == InitAll /\ [][NextAll]_vars

\* The refresh job on a store that holds more rows than the pool has threads,
\* loaded at 100.00 each, run by two schedulers at once; every product page
\* behaves the same way.
PoolLinks == <<"P1", "P2", "P3", "P4", "P5", "P6", "P7">>
PoolRows ==
  {[id |-> i, link |-> PoolLinks[i], current_price |-> 10000, last_updated |-> 0] :
     i \in 1..(max_workers + MaxExtra)}

InitPool ==
  /\ scraped_data = PoolRows
  /\ price_history = <<>>
  /\ site \in {[l \in {PoolLinks[i] : i \in DOMAIN PoolLinks} |-> s] :
                  s \in SiteValues \cup FlakyValues}
  /\ InitIdle

NextPool ==
  \/ \E r \in Runs : Refresh(r)
  \/ \E r \in Runs : RefreshReturn(r)

SpecPool == InitPool /\ [][NextPool]_vars

\* The refresh job run by two schedulers at once, next to a request thread
\* that stores and re-prices the product of link L1.
NextOverlap ==
  \/ Scrape(1, {"L1"})
  \/ \E r \in Runs : Refresh(r)
  \/ \E r \in Runs : RefreshReturn(r)

SpecOverlap == InitAll /\ [][NextOverlap]_vars

\* One request thread whose scrape_from_user_url crawls the listing pages and
\* saves what the crawl returned.
Crawl(c) ==
  \/ CrawlStart(c)
  \/ CrawlFetch(c)
  \/ CrawlPage(c)
  \/ CrawlReturn(c)

InitCrawl ==
  /\ scraped_data = {}
  /\ price_history = <<>>
  /\ site = [l \in Links |-> Served("noprice", 0)]
  /\ InitIdle

NextCrawl ==
  \/ Crawl(1)
  \/ SaveLoop(1)
  \/ SaveCommit(1)
  \/ ScrapeReturn(1)

SpecCrawl == InitCrawl /\ [][NextCrawl]_vars

\* One call of fetch_all_products on pages of at most MaxLiveCards cards,
\* with the crawl loop going on: requests.get has timeout=10, so a request
\* returns or raises, and the rest of an iteration is straight code.
LivePages ==
  {Page("ok", cards, pg) : cards \in UNION {[1..n -> Cards] : n \in 0..MaxLiveCards},
                           pg \in Paginations}
LiveFetch(c) == Fetch(c, LivePages)

NextLive ==
  \/ CrawlStart(1)
  \/ LiveFetch(1)
  \/ CrawlPage(1)
  \/ CrawlReturn(1)

FairCrawl == WF_vars(LiveFetch(1)) /\ WF_vars(CrawlPage(1))

LiveCrawl == InitCrawl /\ [][NextLive]_vars /\ FairCrawl

\* ================================================================ claims
\* the history rows a step adds, and those of them that belong to row id
NewSamples == SubSeq(price_history', Len(price_history) + 1, Len(price_history'))
SamplesOf(h, id) == SelectSeq(h, LAMBDA x : x.product_id = id)
RowOf(rows, id) == CHOOSE r \in rows : r.id = id

\* the step in which thread c's save_to_db commits its batch
Commits(c) ==
  /\ cpc[c] = "save_to_db"
  /\ cpc'[c] = "after_save"
  /\ savelog'[c] = "info"

\* C1: when save_to_db commits a batch, every product of the batch whose link
\* has a stored row with a different current price leaves exactly one new
\* history row for that row, carrying the row's price from just before the
\* commit, and the row's current price is the product's price.
C1_PriceChange ==
  [][\A c \in Crawlers : Commits(c) =>
       \A i \in 1..Len(products[c]) :
         \A r \in scraped_data :
           (r.link = products[c][i].link /\ r.current_price # products[c][i].price.v)
           => /\ SamplesOf(NewSamples, r.id)
                   = <<[product_id |-> r.id, price |-> r.current_price]>>
              /\ r.id \in Ids(scraped_data')
              /\ RowOf(scraped_data', r.id).current_price = products[c][i].price.v
    ]_vars

\* C1's case: a committed batch that changed the price of a stored row
C1_Witness ==
  /\ cpc[1] = "after_save"
  /\ savelog[1] = "info"
  /\ \E i \in 1..Len(products[1]) : \E k \in 1..Len(price_histories[1]) :
       \E r \in scraped_data :
         /\ r.link = products[1][i].link
         /\ r.id = price_histories[1][k].product_id
         /\ r.current_price = products[1][i].price.v
         /\ price_histories[1][k].price.v # r.current_price

\* C2: over crawl ingestions and refresh runs, a step adds a history row for
\* a stored row exactly when it changes that row's current price, and the
\* history row carries the price from just before the change.
C2_SamplesMatchChanges ==
  [][/\ \A r \in scraped_data :
          /\ r.id \in Ids(scraped_data')
          /\ SamplesOf(NewSamples, r.id) =
               IF RowOf(scraped_data', r.id).current_price # r.current_price
               THEN <<[product_id |-> r.id, price |-> r.current_price]>>
               ELSE <<>>
     /\ \A k \in 1..Len(NewSamples) : NewSamples[k].product_id \in Ids(scraped_data)
    ]_vars

\* C3: a refresh run that started with link L stored at 100.00 while the page
\* of L serves 150.00 ends with exactly one history row for L, of 100.00, and
\* with L's current price 150.00.
C3_RefreshScenario ==
  (/\ jpc[1] = "done"
   /\ \A c \in Crawlers : cpc[c] \in {"idle", "returned"})
  => \A w \in Tasks(1) :
       (/\ rproducts[1][w].current_price.v = 10000
        /\ site[rproducts[1][w].link] = Served("price", 15000))
       => /\ rproducts[1][w].id \in Ids(scraped_data)
          /\ RowOf(scraped_data, rproducts[1][w].id).current_price = 15000
          /\ SamplesOf(price_history, rproducts[1][w].id)
               = <<[product_id |-> rproducts[1][w].id, price |-> 10000]>>

\* C4: a committed batch with a product whose link is stored with the same
\* price adds no history row for that row, leaves the row as it is and adds
\* no second row for the link.
C4_UpsertIdempotent ==
  [][\A c \in Crawlers : Commits(c) =>
       \A i \in 1..Len(products[c]) :
         \A r \in scraped_data :
           (r.link = products[c][i].link /\ r.current_price = products[c][i].price.v)
           => /\ SamplesOf(NewSamples, r.id) = <<>>
              /\ {x \in scraped_data' : x.link = r.link} = {r}
    ]_vars

\* C5: no two stored rows have the same link.
C5_LinkUnique ==
  \A r1, r2 \in scraped_data : r1.link = r2.link => r1 = r2

\* C5's case: two request threads looked the same new link up, one committed
\* its insert and the other's commit was rejected
C5_Witness ==
  /\ cpc[1] = "after_save" /\ cpc[2] = "after_save"
  /\ savelog[1] = "info" /\ savelog[2] = "error"
  /\ Len(new_products[1]) = 1
  /\ Len(new_products[2]) = 1
  /\ new_products[2][1].link = new_products[1][1].link
  /\ idx[2] > Len(products[2])

\* C6: no step of save_to_db other than its successful commit changes the
\* committed tables: not the loop, and not a failure wherever it strikes.
C6_BatchAtomic ==
  [][\A c \in Crawlers :
       (/\ cpc[c] = "save_to_db"
        /\ \/ savelog'[c] = "error"
           \/ idx'[c] # idx[c])
       => /\ scraped_data' = scraped_data
          /\ price_history' = price_history
    ]_vars

\* C6's case: a batch of an insert and a price change failed at its commit
\* and nothing of it is stored
C6_Witness ==
  /\ cpc[1] = "after_save"
  /\ savelog[1] = "error"
  /\ idx[1] > Len(products[1])
  /\ Len(new_products[1]) = 1
  /\ Len(price_histories[1]) = 1
  /\ RowsByLink(new_products[1][1].link) = {}
  /\ \E r \in scraped_data :
       /\ r.id = price_histories[1][1].product_id
       /\ r.current_price = price_histories[1][1].price.v

\* C7: scrape_from_user_url never returns "success" for a batch that
\* save_to_db rolled back.
C7_FailureSurfaced ==
  \A c \in Crawlers :
    (cpc[c] = "returned" /\ savelog[c] = "error") => result[c] # "success"

\* C8: a refresh run that observes price q for a row it loaded at price p,
\* and a crawl ingestion that commits price r for the same row during the
\* run, take effect one after the other: the row's history ends with p and
\* then the price written first, and the row holds the price written last.
C8_NoLostUpdate ==
  (/\ jpc[1] = "done"
   /\ cpc[1] = "after_save"
   /\ savelog[1] = "info")
  => \A w \in Tasks(1) : \A i \in 1..Len(products[1]) :
       LET p == rproducts[1][w].current_price.v
           q == site[rproducts[1][w].link].v
           r == products[1][i].price.v
           id == rproducts[1][w].id
           h == SamplesOf(price_history, id) IN
       (/\ products[1][i].link = rproducts[1][w].link
        /\ site[rproducts[1][w].link].t = "price"
        /\ p # q /\ p # r /\ q # r)
       => /\ id \in Ids(scraped_data)
          /\ Len(h) >= 2
          /\ \/ /\ SubSeq(h, Len(h) - 1, Len(h))
                     = <<[product_id |-> id, price |-> p], [product_id |-> id, price |-> q]>>
                /\ RowOf(scraped_data, id).current_price = r
             \/ /\ SubSeq(h, Len(h) - 1, Len(h))
                     = <<[product_id |-> id, price |-> p], [product_id |-> id, price |-> r]>>
                /\ RowOf(scraped_data, id).current_price = q

\* C9: at no time are two tasks of a refresh run inside the part of
\* update_single_product that reads and writes through the session.
InSession(r) == {w \in Tasks(r) : wpc[r][w] \in {"query", "write"}}

C10_FailureIsolation ==
  (/\ jpc[1] = "done"
   /\ \A c \in Crawlers : cpc[c] \in {"idle", "returned"}
   /\ \E w \in Tasks(1) : site[rproducts[1][w].link].t = "fail")
  => \A v \in Tasks(1) :
       (/\ site[rproducts[1][v].link].t = "price"
        /\ site[rproducts[1][v].link].v # rproducts[1][v].current_price.v)
       => /\ rproducts[1][v].id \in Ids(scraped_data)
          /\ RowOf(scraped_data, rproducts[1][v].id).current_price
               = site[rproducts[1][v].link].v

\* C11: when a refresh run is over and the first request to every row's page
\* succeeded, the run had one task per stored row and each task called
\* fetch_current_price exactly once.
C11_ExactlyNFetches ==
  \A r \in Runs :
    (/\ jpc[r] = "done"
     /\ \A w \in Tasks(r) : ~RequestFails(site[rproducts[r][w].link], 1))
    => /\ {rproducts[r][w].link : w \in Tasks(r)} = {x.link : x \in scraped_data}
       /\ \A w \in Tasks(r) : attempts[r][w] = 1

\* C12: when a refresh run is over, no task made more than 3 calls of
\* fetch_current_price; a task whose page failed twice and then served a price
\* made three calls and, when that price is not the loaded one, holds it as
\* its observation; and a row whose page failed on every attempt has its
\* price and its history as they were.
C12_RetryBudget ==
  \A r \in Runs : jpc[r] = "done" =>
    \A w \in Tasks(r) :
      LET served == site[rproducts[r][w].link] IN
      /\ attempts[r][w] <= stop_after_attempt
      /\ served.t = "flaky" =>
            /\ attempts[r][w] = stop_after_attempt
            /\ PyNe(rproducts[r][w].current_price, Float(served.v))
                 => updated_price[r][w] = Float(served.v)
      /\ served.t = "fail" =>
            /\ \E x \in scraped_data :
                 /\ x.id = rproducts[r][w].id
                 /\ x.current_price = rproducts[r][w].current_price.v
            /\ SamplesOf(price_history, rproducts[r][w].id) = <<>>

\* C13: the step that ends a refresh run's pool and issues its commit is
\* taken only when every task of the run has finished, and the run returns
\* only after that step.
C13_Barrier ==
  [][\A r \in Runs :
       /\ (jpc[r] = "running" /\ jpc'[r] = "done")
            => \A w \in Tasks(r) : wpc[r][w] = "done"
       /\ (jpc[r] # "idle" /\ jpc'[r] = "idle") => jpc[r] = "done"
    ]_vars

\* C13's case: a run over more rows than the pool has threads has committed
C13_Witness ==
  /\ jpc[1] = "done"
  /\ Len(rproducts[1]) > max_workers
  /\ \A w \in Tasks(1) : wpc[1][w] = "done"

\* C14: in every refresh run, at most max_workers tasks are being executed.
C14_BoundedPool ==
  \A r \in Runs : Cardinality(Running(r)) <= max_workers

\* C14's case: every pool thread is busy while a task is still queued
C14_Witness ==
  \E r \in Runs :
    /\ Cardinality(Running(r)) = max_workers
    /\ \E w \in Tasks(r) : wpc[r][w] = "queued"

\* a card with a title, a link and a price text that parses, the link it
\* shows, and the links of a list of products
ValidCard(el) == el.title_el /\ el.href # NoHref /\ el.price_text.t = "price"
LinkOf(el) == urljoin(BaseUrl, el.href)
LinksIn(list) == {list[k].link : k \in 1..Len(list)}

\* C15: the list a crawl is building and the list it returned never hold two
\* products of one link; and the first page of every crawl, whatever earlier
\* crawls emitted, gives the product of its first card when that card has a
\* title, a link and a price.
C15_PerRunDedup ==
  [][\A c \in Crawlers :
       /\ DistinctLinks(all_products'[c])
       /\ DistinctLinks(products'[c])
       /\ (/\ cpc[c] = "parse"
           /\ all_products[c] = <<>>
           /\ response[c].cards # <<>>
           /\ ValidCard(response[c].cards[1]))
          => /\ all_products'[c] # <<>>
             /\ all_products'[c][1].link = LinkOf(response[c].cards[1])
    ]_vars

\* C15's case: a crawl after one that stored link L met a page with two
\* cards of L, one with a relative and one with an absolute href, and
\* emitted L once
C15_Witness ==
  /\ cpc[1] = "crawled"
  /\ Len(response[1].cards) = 2
  /\ ValidCard(response[1].cards[1])
  /\ ValidCard(response[1].cards[2])
  /\ response[1].cards[1].href # response[1].cards[2].href
  /\ LinkOf(response[1].cards[1]) = LinkOf(response[1].cards[2])
  /\ Len(all_products[1]) = 1
  /\ RowsByLink(all_products[1][1].link) # {}

\* C16: a failed page request ends the crawl at once; a parsed page ends it
\* when it added no product, when it has no current-page number, or when no
\* anchor carries that number plus one; no step takes a product away from
\* the list; after the end there is no further request, and save_to_db gets
\* the list as it stood.
C16_TerminationPolicy ==
  [][\A c \in Crawlers :
       /\ (cpc[c] = "crawl" /\ response'[c].status = "fail")
            => cpc'[c] = "crawled" /\ all_products'[c] = all_products[c]
       /\ cpc[c] = "parse" =>
            LET page == response[c] IN
            /\ SubSeq(all_products'[c], 1, Len(all_products[c])) = all_products[c]
            /\ (\A i \in 1..Len(page.cards) : ~ValidCard(page.cards[i]))
                 => all_products'[c] = all_products[c]
            /\ all_products'[c] = all_products[c] => cpc'[c] = "crawled"
            /\ page.current.t # "int" => cpc'[c] = "crawled"
            /\ (\A k \in 1..Len(page.anchors) :
                   page.anchors[k].label # Num(page.current.v + 1))
                 => cpc'[c] = "crawled"
       /\ cpc[c] = "crawled" =>
            \/ cpc'[c] = "crawled" /\ response'[c] = response[c]
                                    /\ all_products'[c] = all_products[c]
            \/ cpc'[c] = "save_to_db" /\ products'[c] = all_products[c]
    ]_vars

\* C16's case: a page request failed after an earlier page had given
\* products, and the crawl ended with them
C16_Witness ==
  /\ cpc[1] = "crawled"
  /\ response[1].status = "fail"
  /\ all_products[1] # <<>>

\* C18: whatever save_to_db is about to insert or has changed in its session
\* has the link of a card and a float price; and a page gives the product of
\* every card with a title, a link and a price whose link is neither seen
\* nor shown by an earlier card of the page, whatever the cards around it.
C18_ValidRecords ==
  [][\A c \in Crawlers :
       /\ \A i \in 1..Len(new_products'[c]) :
            /\ new_products'[c][i].link \in Links
            /\ new_products'[c][i].current_price.t = "float"
       /\ \A id \in DOMAIN dirty'[c] : dirty'[c][id].current_price.t = "float"
       /\ cpc[c] = "parse" =>
            LET cards == response[c].cards IN
            \A i \in 1..Len(cards) :
              (/\ ValidCard(cards[i])
               /\ LinkOf(cards[i]) \notin seen_links[c]
               /\ \A j \in 1..(i - 1) :
                    ~cards[j].title_el \/ cards[j].href = NoHref
                      \/ LinkOf(cards[j]) # LinkOf(cards[i]))
              => LinkOf(cards[i]) \in LinksIn(all_products'[c])
    ]_vars

\* C18's case: the crawl dropped the card of L1 for its price, gave the
\* product of L2, and save_to_db inserted L2 alone
C18_Witness ==
  /\ cpc[1] = "after_save"
  /\ savelog[1] = "info"
  /\ seen_links[1] = {"L1", "L2"}
  /\ LinksIn(products[1]) = {"L2"}
  /\ LinksIn(new_products[1]) = {"L2"}
  /\ RowsByLink("L2") # {}
  /\ RowsByLink("L1") = {}

\* C20: after a page is parsed, the link of each of its cards that has a
\* title, a link and a price is among the links of the products the crawl
\* has emitted.
C20_SuppressOnlyEmitted ==
  [][\A c \in Crawlers : cpc[c] = "parse" =>
       \A i \in 1..Len(response[c].cards) :
         ValidCard(response[c].cards[i])
         => LinkOf(response[c].cards[i]) \in LinksIn(all_products'[c])
    ]_vars

\* the step in which refresh run r leaves its pool and commits
RefreshCommits(r) == jpc[r] = "running" /\ jpc'[r] = "done"

C19_UnchangedNoOp ==
  [][/\ \A c \in Crawlers : Commits(c) =>
          \A i \in 1..Len(products[c]) : \A x \in scraped_data :
            (x.link = products[c][i].link /\ x.current_price = products[c][i].price.v)
            => x \in scraped_data' /\ SamplesOf(NewSamples, x.id) = <<>>
     /\ \A r \in Runs : RefreshCommits(r) =>
          \A w \in Tasks(r) : \A x \in scraped_data :
            (/\ x.id = rproducts[r][w].id
             /\ x.current_price = rproducts[r][w].current_price.v
             /\ \/ site[x.link].t = "noprice"
                \/ site[x.link].t = "price" /\ site[x.link].v = x.current_price)
            => x \in scraped_data' /\ SamplesOf(NewSamples, x.id) = <<>>
    ]_vars

\* C21: no step of save_to_db or of a refresh run removes or alters a
\* committed history row: the rows present before the step are, in place and
\* unchanged, the first rows after it, and the stored row that a history row
\* belongs to is still stored, under the same link.
C21_HistoryAppendOnly ==
  [][/\ Len(price_history') >= Len(price_history)
     /\ SubSeq(price_history', 1, Len(price_history)) = price_history
     /\ \A k \in 1..Len(price_history) : \A x \in scraped_data :
          x.id = price_history[k].product_id
          => /\ \E y \in scraped_data' : y.id = x.id
             /\ \A y \in scraped_data' : y.id = x.id => y.link = x.link
    ]_vars

\* C21's case: with one history row committed, a refresh run over the stored
\* rows has committed and a batch has added a second history row; the first
\* is still there
C21_Witness ==
  /\ Len(price_history) = 2
  /\ cpc[1] = "after_save"
  /\ savelog[1] = "info"
  /\ Len(price_histories[1]) = 1
  /\ price_history[2] = BoundHistories(price_histories[1])[1]
  /\ jpc[1] = "done"
  /\ rproducts[1] # <<>>

\* C22: a crawl that has started reaches the end of its loop; and every
\* iteration after which the loop goes on has emitted a product whose link
\* the run had not seen, so that seen_links has grown.
C22_CrawlTerminates ==
  /\ (cpc[1] = "crawl") ~> (cpc[1] = "crawled")
  /\ [][\A c \in Crawlers : (cpc[c] = "parse" /\ cpc'[c] = "crawl") =>
         /\ seen_links[c] \subseteq seen_links'[c]
         /\ \E l \in LinksIn(all_products'[c]) :
              /\ l \notin seen_links[c]
              /\ l \notin LinksIn(all_products[c])
              /\ l \in seen_links'[c]
      ]_vars

\* C22's case: the crawl followed a page's link to the next page, got a page
\* whose cards all show products it had emitted and whose pagination leads
\* back to the start, and ended there
C22_Witness ==
  /\ cpc[1] = "crawled"
  /\ url[1] = "p2"
  /\ response[1].status = "ok"
  /\ response[1].cards # <<>>
  /\ \A i \in 1..Len(response[1].cards) :
       /\ ValidCard(response[1].cards[i])
       /\ LinkOf(response[1].cards[i]) \in LinksIn(all_products[1])
  /\ next_page_url(response[1]) = start_url
  /\ Len(all_products[1]) = 1

====
